---------------------------- MODULE Spec2Model ----------------------------
(***************************************************************************)
(* A model of the from-scratch public-key demonstrations of the            *)
(* repository:                                                             *)
(*   "4 RSA.py"               key generation, encrypt, decrypt             *)
(*   "6 Digital Signature.py" gcd, modinv, generate_keypair, sign, verify  *)
(*   "3 Diffie-Hellman.py"    is_prime, dhkep                              *)
(* Each script is a straight-line program; `script` says which one runs    *)
(* and `pc` where it stands.  Strings are sequences of code points, so     *)
(* ord and chr are the representation itself; Python integers are          *)
(* unbounded, so x ** y % m is the exact residue, computed here with a     *)
(* reduction after every multiplication.                                   *)
(***************************************************************************)
EXTENDS Integers, Sequences, FiniteSets, TLC

VARIABLES
    script,          \* which program runs: "rsa", "sig", "dh", or the function
                     \* called on its own: "prime", "is_prime", "modinv",
                     \* "choose_e", "derive"
    pc,              \* the position reached in it
    p, q,            \* RSA.py / Digital Signature.py: the two primes; dhkep: p
    n, phi_n,        \* RSA.py: modulus and totient
    e, d,            \* RSA.py: public and private exponent
    msg,             \* RSA.py: the message typed
    encrypted,       \* RSA.py: encrypt's result (a string)
    decrypted,       \* RSA.py: decrypt's result with the private key
    decrypted_false, \* RSA.py: decrypt's result with the public key
    keypair,         \* Digital Signature.py: generate_keypair's locals and result
    message,         \* Digital Signature.py: the message Alice signs
    signature,       \* Digital Signature.py: sign's result
    received,        \* Digital Signature.py: the message Bob verifies
    is_authentic,    \* Digital Signature.py: verify's result
    g, a, b,         \* dhkep: the base and the two secrets
    A, B,            \* dhkep: the public values exchanged
    key1, key2,      \* dhkep: the shared key as Alice and as Bob compute it
    typed,           \* Diffie-Hellman.py: what was typed for g and p
    argument,        \* a call of prime(num) or is_prime(num): the argument
    returned,        \* a call of prime(num) or is_prime(num): what it returned
    args,            \* a call of modinv(a, m) or of the choice of e: the arguments
    result           \* what that call returned, or that it raised

rsaVars == <<n, phi_n, e, d, msg, encrypted, decrypted, decrypted_false>>
sigVars == <<keypair, message, signature, received, is_authentic>>
dhVars == <<g, a, b, A, B, key1, key2, typed>>
fnVars == <<argument, returned, args, result>>
vars == <<script, pc, p, q, rsaVars, sigVars, dhVars, fnVars>>

-----------------------------------------------------------------------------
(* Bounds of the model *)

\* how many entries of prime_list, from its head, the two draws range over
NumPrimes == 4
\* the exponents tried are those within ESpan of 2, of phi(n) and of n
ESpan == 10
\* longest message typed
MaxMsgLen == 2
\* primes below MaxSigPrime are passed to generate_keypair besides the demo's
MaxSigPrime == 13
\* the base typed for dhkep is in -MaxG..MaxG, the modulus in -1..MaxP
MaxG == 5
MaxP == 17
\* prime(num) and is_prime(num) are called with num in -MaxArg..MaxArg
MaxArg == 100
\* modinv(a, m) is called with a in 0..MaxA and m in 1..MaxM
MaxA == 40
MaxM == 20
\* d is derived both ways for phi in 2..MaxPhi and e in 2..MaxE
MaxPhi == 40
MaxE == 100
\* e is chosen for phi in 2..MaxPhi and for the multiples 65537 * k of 65537
\* with k in 1..MaxMultiple
MaxMultiple == 16
\* the exponent-inverse law is evaluated on the XSpan least and XSpan greatest
\* residues of n
XSpan == 20

-----------------------------------------------------------------------------
(* Integer arithmetic *)

\* (x * y) % m for 0 <= x, y < m < 2^27, exact also where x * y leaves 32 bits:
\* y is taken four bits at a time
RECURSIVE MulMod(_, _, _)
MulMod(x, y, m) ==
    IF x = 0 \/ y = 0 THEN 0
    ELSE IF m <= 46340 THEN (x * y) % m
    ELSE IF y < 16 THEN (x * y) % m
    ELSE (((MulMod(x, y \div 16, m) * 16) % m) + ((x * (y % 16)) % m)) % m

\* base ** ex % m for 0 <= ex <= 16, m >= 1, by squaring
RECURSIVE PowBits(_, _, _)
PowBits(base, ex, m) ==
    IF ex = 0 THEN 1 % m
    ELSE IF base % m = 0 THEN 0
    ELSE LET half == PowBits(base, ex \div 2, m)
         IN  IF half = 0 THEN 0
             ELSE IF ex % 2 = 0 THEN MulMod(half, half, m)
             ELSE MulMod(MulMod(half, half, m), base % m, m)

\* base ** ex % m (and pow(base, ex, m)) for ex >= 0, m >= 1: the exponent is
\* taken four bits at a time, base^ex = (base^(ex div 16))^16 * base^(ex mod 16)
RECURSIVE PowMod(_, _, _)
PowMod(base, ex, m) ==
    IF ex < 16 THEN PowBits(base, ex, m)
    ELSE LET high == PowMod(base, ex \div 16, m)
         IN  IF high = 0 THEN 0
             ELSE MulMod(PowBits(high, 16, m), PowBits(base, ex % 16, m), m)

\* math.gcd, and gcd(a, b) of Digital Signature.py: while b: a, b = b, a % b
RECURSIVE gcd(_, _)
gcd(a0, b0) == IF b0 = 0 THEN a0 ELSE gcd(b0, a0 % b0)

-----------------------------------------------------------------------------
(* RSA.py *)

LowCandidate == 127
HighCandidate == 500

\* prime(num): the loop returns False at the first divisor in range(2, num)
prime(num) ==
    IF num = 1 THEN FALSE
    ELSE IF num = 2 THEN TRUE
    ELSE \A i \in 2..(num - 1) : num % i # 0

IsCandidate(i) == prime(i)

\* prime_list, in the order of range(127, 500+1)
prime_list ==
    SelectSeq([k \in 1..(HighCandidate - LowCandidate + 1) |-> LowCandidate + k - 1],
              IsCandidate)

\* str(k) for k >= 0: the decimal digits, as code points
RECURSIVE str(_)
str(k) == IF k < 10 THEN <<48 + k>> ELSE str(k \div 10) \o <<48 + (k % 10)>>

\* ' '.join(parts)
RECURSIVE join(_)
join(parts) ==
    IF Len(parts) = 0 THEN <<>>
    ELSE IF Len(parts) = 1 THEN parts[1]
    ELSE parts[1] \o <<32>> \o join(Tail(parts))

\* s.split(): the maximal runs of non-blank characters of s, in order
RECURSIVE splitFrom(_, _, _)
splitFrom(s, i, cur) ==
    IF i > Len(s) THEN (IF cur = <<>> THEN <<>> ELSE <<cur>>)
    ELSE IF s[i] = 32
         THEN (IF cur = <<>> THEN <<>> ELSE <<cur>>) \o splitFrom(s, i + 1, <<>>)
         ELSE splitFrom(s, i + 1, Append(cur, s[i]))

split(s) == splitFrom(s, 1, <<>>)

\* int(tok) for a token of decimal digits
RECURSIVE int(_)
int(tok) ==
    IF Len(tok) = 0 THEN 0
    ELSE 10 * int(SubSeq(tok, 1, Len(tok) - 1)) + (tok[Len(tok)] - 48)

\* encrypt(msg, n, e): ord(i) ** e % n for each symbol, space-separated
encrypt(m, nn, ee) ==
    join([i \in 1..Len(m) |-> str(PowMod(m[i], ee, nn))])

\* decrypt(msg, n, d): chr((int(i) ** d) % n) for each token
decrypt(s, nn, dd) ==
    LET toks == split(s)
    IN  [i \in 1..Len(toks) |-> PowMod(int(toks[i]), dd, nn)]

\* the list taken over range(1, n)
ECandidatesFromOne(nn, phi) == {i \in 1..(nn - 1) : gcd(i, phi) = 1}

\* [i for i in range(2, n) if math.gcd(i, phi_n) == 1]
ECandidates(nn, phi) == {i \in 2..(nn - 1) : gcd(i, phi) = 1}

\* the exponents the model draws: the candidates near 2, near phi and near n
ESample(nn, phi) ==
    {i \in ECandidates(nn, phi) :
        \/ i <= 2 + ESpan
        \/ (i >= phi - ESpan /\ i <= phi + ESpan)
        \/ i >= nn - ESpan}

\* the loop with the test after the increment: one step too far
TrialIncrementPastHit(ee, phi) ==
    LET hits == {k \in 1..phi : (ee * k) % phi = 1}
    IN  IF hits = {} THEN 0 ELSE 1 + CHOOSE k \in hits : \A j \in hits : k <= j

\* the loop started at d = 2
TrialIncrementFromTwo(ee, phi) ==
    LET hits == {k \in 2..(phi + 1) : (ee * k) % phi = 1}
    IN  IF hits = {} THEN 0 ELSE CHOOSE k \in hits : \A j \in hits : k <= j

\* d = 1; while (e * d) % phi_n != 1: d += 1.  (e * d) % phi_n has period phi_n
\* in d, so the loop stops at the least d in 1..phi_n with residue 1, and never
\* stops (0) when there is none.
TrialIncrement(ee, phi) ==
    LET hits == {k \in 1..phi : (ee * k) % phi = 1}
    IN  IF hits = {} THEN 0 ELSE CHOOSE k \in hits : \A j \in hits : k <= j

\* 'Some message', the default when nothing is typed
DefaultMsg == <<83, 111, 109, 101, 32, 109, 101, 115, 115, 97, 103, 101>>

\* the symbols typed: NUL, 'A', chr(p) (a symbol that shares a factor with n),
\* the largest symbol below n, n and n + 65
SymbolSample(nn) == {0, 65, p, nn - 1, nn, nn + 65}

Typed(nn) ==
    UNION {[1..len -> SymbolSample(nn)] : len \in 0..MaxMsgLen}

\* generate_keypair has not returned
NoKeypair ==
    [raised |-> FALSE, phi |-> 0, public_key |-> <<0, 0>>, private_key |-> <<0, 0>>]

\* no call has returned
NoResult == [raised |-> FALSE, value |-> 0]

\* nothing is assigned before a script starts
Unassigned ==
    /\ pc = "start"
    /\ p = 0 /\ q = 0 /\ n = 0 /\ phi_n = 0 /\ e = 0 /\ d = 0
    /\ msg = <<>> /\ encrypted = <<>> /\ decrypted = <<>>
    /\ decrypted_false = <<>>
    /\ keypair = NoKeypair /\ message = <<>> /\ signature = 0
    /\ received = <<>> /\ is_authentic = FALSE
    /\ g = 0 /\ a = 0 /\ b = 0 /\ A = 0 /\ B = 0 /\ key1 = 0 /\ key2 = 0
    /\ typed = "nothing"
    /\ argument = 0 /\ returned = FALSE
    /\ args = <<>> /\ result = NoResult

InitRSA == script = "rsa" /\ Unassigned

\* Step 1: p = random.choice(prime_list); q = random.choice(prime_list)
DrawPrimes ==
    /\ script = "rsa" /\ pc = "start"
    /\ \E i, j \in 1..NumPrimes :
          /\ i <= Len(prime_list) /\ j <= Len(prime_list)
          /\ p' = prime_list[i]
          /\ q' = prime_list[j]
    /\ pc' = "primes"
    /\ UNCHANGED <<script, sigVars, dhVars, fnVars, n, phi_n, e, d, msg, encrypted, decrypted,
                   decrypted_false>>

\* Step 2: n = p * q
ComputeN ==
    /\ script = "rsa" /\ pc = "primes"
    /\ n' = p * q
    /\ pc' = "modulus"
    /\ UNCHANGED <<script, sigVars, dhVars, fnVars, p, q, phi_n, e, d, msg, encrypted, decrypted,
                   decrypted_false>>

\* Step 3: phi_n = (p - 1) * (q - 1)
ComputePhi ==
    /\ script = "rsa" /\ pc = "modulus"
    /\ phi_n' = (p - 1) * (q - 1)
    /\ pc' = "totient"
    /\ UNCHANGED <<script, sigVars, dhVars, fnVars, p, q, n, e, d, msg, encrypted, decrypted,
                   decrypted_false>>

\* Step 4: e = random.choice([i for i in range(2, n) if gcd(i, phi_n) == 1])
ChooseE ==
    /\ script = "rsa" /\ pc = "totient"
    /\ \E i \in ESample(n, phi_n) : e' = i
    /\ pc' = "exponent"
    /\ UNCHANGED <<script, sigVars, dhVars, fnVars, p, q, n, phi_n, d, msg, encrypted, decrypted,
                   decrypted_false>>

\* Step 5: the trial-increment loop; Step 6 only packs the tuples
ComputeD ==
    /\ script = "rsa" /\ pc = "exponent"
    /\ TrialIncrement(e, phi_n) # 0
    /\ d' = TrialIncrement(e, phi_n)
    /\ pc' = "keys"
    /\ UNCHANGED <<script, sigVars, dhVars, fnVars, p, q, n, phi_n, e, msg, encrypted, decrypted,
                   decrypted_false>>

\* msg = input("Enter a message: ") or 'Some message'
InputMsg ==
    /\ script = "rsa" /\ pc = "keys"
    /\ \E line \in Typed(n) :
          msg' = IF line = <<>> THEN DefaultMsg ELSE line
    /\ pc' = "message"
    /\ UNCHANGED <<script, sigVars, dhVars, fnVars, p, q, n, phi_n, e, d, encrypted, decrypted,
                   decrypted_false>>

\* encrypted = encrypt(msg, *public_key)
Encrypt ==
    /\ script = "rsa" /\ pc = "message"
    /\ encrypted' = encrypt(msg, n, e)
    /\ pc' = "encrypted"
    /\ UNCHANGED <<script, sigVars, dhVars, fnVars, p, q, n, phi_n, e, d, msg, decrypted,
                   decrypted_false>>

\* decrypted = decrypt(encrypted, *private_key)
Decrypt ==
    /\ script = "rsa" /\ pc = "encrypted"
    /\ decrypted' = decrypt(encrypted, n, d)
    /\ pc' = "decrypted"
    /\ UNCHANGED <<script, sigVars, dhVars, fnVars, p, q, n, phi_n, e, d, msg, encrypted,
                   decrypted_false>>

\* decrypted_false = decrypt(encrypted, *public_key)
DecryptFalse ==
    /\ script = "rsa" /\ pc = "decrypted"
    /\ decrypted_false' = decrypt(encrypted, n, e)
    /\ pc' = "done"
    /\ UNCHANGED <<script, sigVars, dhVars, fnVars, p, q, n, phi_n, e, d, msg, encrypted, decrypted>>

NextRSA ==
    \/ DrawPrimes \/ ComputeN \/ ComputePhi \/ ChooseE \/ ComputeD
    \/ InputMsg \/ Encrypt \/ Decrypt \/ DecryptFalse

-----------------------------------------------------------------------------
(* Digital Signature.py *)

\* e = 65537, the common choice
CommonE == 65537
\* p, q = 61, 53
DemoP == 61
DemoQ == 53
\* modinv(a, m): the loop, from (a, m, x0, x1); a // m raises ZeroDivisionError
\* once m has become 0 while a > 1
RECURSIVE modinvLoop(_, _, _, _)
modinvLoop(a0, m, x0, x1) ==
    IF a0 > 1
    THEN IF m = 0
         THEN [raised |-> TRUE, value |-> 0]
         ELSE modinvLoop(m, a0 % m, x1 - (a0 \div m) * x0, x0)
    ELSE [raised |-> FALSE, value |-> x1]

\* modinv returning abs(x1) in place of x1 + m0
modinvAbs(a0, m) ==
    LET r == modinvLoop(a0, m, 0, 1)
    IN  IF r.raised THEN r
        ELSE [raised |-> FALSE,
              value |-> IF r.value < 0 THEN 0 - r.value ELSE r.value]

\* modinv(a, m): return x1 + m0 if x1 < 0 else x1
modinv(a0, m) ==
    LET r == modinvLoop(a0, m, 0, 1)
    IN  IF r.raised THEN r
        ELSE [raised |-> FALSE,
              value |-> IF r.value < 0 THEN r.value + m ELSE r.value]

\* the search with `if` for `while`: a single increment
oddSearchOnce(cand, phi) ==
    IF gcd(cand, phi) # 1 THEN cand + 2 ELSE cand

\* e = 3; while gcd(e, phi) != 1: e += 2
RECURSIVE oddSearch(_, _)
oddSearch(cand, phi) ==
    IF gcd(cand, phi) # 1 THEN oddSearch(cand + 2, phi) ELSE cand

\* generate_keypair: the choice of e
keypairE(phi) ==
    IF gcd(CommonE, phi) # 1 THEN oddSearch(3, phi) ELSE CommonE

\* generate_keypair with lcm(p - 1, q - 1) for phi
generate_keypairLambda(pp, qq) ==
    LET nn == pp * qq
        phi == ((pp - 1) * (qq - 1)) \div gcd(pp - 1, qq - 1)
        ee == keypairE(phi)
        inv == modinv(ee, phi)
    IN  [raised |-> inv.raised,
         phi |-> phi,
         public_key |-> <<ee, nn>>,
         private_key |-> <<inv.value, nn>>]

\* generate_keypair(p, q): its locals and, unless modinv raised, its result
generate_keypair(pp, qq) ==
    LET nn == pp * qq
        phi == (pp - 1) * (qq - 1)
        ee == keypairE(phi)
        inv == modinv(ee, phi)
    IN  [raised |-> inv.raised,
         phi |-> phi,
         public_key |-> <<ee, nn>>,
         private_key |-> <<inv.value, nn>>]

\* "Hi Bob, this is Alice!"
DemoMessage ==
    <<72, 105, 32, 66, 111, 98, 44, 32, 116, 104, 105, 115, 32, 105, 115, 32,
      65, 108, 105, 99, 101, 33>>
\* "Hi Bob, this is Alice?"
TamperedDemo ==
    <<72, 105, 32, 66, 111, 98, 44, 32, 116, 104, 105, 115, 32, 105, 115, 32,
      65, 108, 105, 99, 101, 63>>
\* "<"
MsgLt == <<60>>
\* "K"
MsgK == <<75>>
\* "A"
MsgA == <<65>>

\* the messages signed and delivered
Messages == {DemoMessage, TamperedDemo, MsgLt, MsgK, MsgA}

\* hashlib.sha256(msg.encode()).digest(), tabulated for Messages:
\* 4ed4a4cc4b097cb33d7eefe41c118a3ea64d744fac3129f08622718b11504659
\* b8c6f1a07ec5ab781ac8239d50c9bf97830b10810cee5c79b51063fb1c05ea48
\* dabd3aff769f07eb2965401eb029974ebba3407afd02b26ddb564ea5f8efae72
\* 86be9a55762d316a3026c2836d044f5fc76e34da10e1b45feee5f18be7edb177
\* 559aead08264d5795d3909718cdd05abd49572e84fe55590eef31a88a08fdffd
sha256(m) ==
    CASE m = DemoMessage ->
           <<78, 212, 164, 204, 75, 9, 124, 179, 61, 126, 239, 228, 28, 17, 138, 62,
             166, 77, 116, 79, 172, 49, 41, 240, 134, 34, 113, 139, 17, 80, 70, 89>>
      [] m = TamperedDemo ->
           <<184, 198, 241, 160, 126, 197, 171, 120, 26, 200, 35, 157, 80, 201, 191, 151,
             131, 11, 16, 129, 12, 238, 92, 121, 181, 16, 99, 251, 28, 5, 234, 72>>
      [] m = MsgLt ->
           <<218, 189, 58, 255, 118, 159, 7, 235, 41, 101, 64, 30, 176, 41, 151, 78,
             187, 163, 64, 122, 253, 2, 178, 109, 219, 86, 78, 165, 248, 239, 174, 114>>
      [] m = MsgK ->
           <<134, 190, 154, 85, 118, 45, 49, 106, 48, 38, 194, 131, 109, 4, 79, 95,
             199, 110, 52, 218, 16, 225, 180, 95, 238, 229, 241, 139, 231, 237, 177, 119>>
      [] m = MsgA ->
           <<85, 154, 234, 208, 130, 100, 213, 121, 93, 57, 9, 113, 140, 221, 5, 171,
             212, 149, 114, 232, 79, 229, 85, 144, 238, 243, 26, 136, 160, 143, 223, 253>>

\* int.from_bytes(digest, 'big') % n: the value of the left half, shifted by
\* the length of the right half, plus the value of the right half
RECURSIVE fromBytesMod(_, _)
fromBytesMod(digest, nn) ==
    IF Len(digest) = 0 THEN 0
    ELSE IF Len(digest) = 1 THEN digest[1] % nn
    ELSE LET cut == Len(digest) \div 2
             left == fromBytesMod(SubSeq(digest, 1, cut), nn)
             right == fromBytesMod(SubSeq(digest, cut + 1, Len(digest)), nn)
         IN  (MulMod(left, PowMod(256, Len(digest) - cut, nn), nn) + right) % nn

\* msg_hash, in sign and in verify
msg_hash(m, nn) == fromBytesMod(sha256(m), nn)

\* sign(msg, private_key): pow(msg_hash, d, n)
sign(m, private_key) ==
    PowMod(msg_hash(m, private_key[2]), private_key[1], private_key[2])

\* verify unpacking the public key as (n, e), the order RSA.py uses
verifySwapped(m, sig, public_key) ==
    msg_hash(m, public_key[1]) = PowMod(sig, public_key[2], public_key[1])

\* verify(msg, signature, public_key): msg_hash == pow(signature, e, n)
verify(m, sig, public_key) ==
    msg_hash(m, public_key[2]) = PowMod(sig, public_key[1], public_key[2])

\* the least prime p with 65537 dividing p - 1: with it gcd(65537, phi) != 1
FallbackPrime == 14 * CommonE + 1

\* the primes handed to generate_keypair
SmallPrimes == {DemoP, DemoQ} \cup {k \in 2..MaxSigPrime : prime(k)}

KeypairInputs ==
    (SmallPrimes \X SmallPrimes)
        \cup ({FallbackPrime} \X SmallPrimes) \cup (SmallPrimes \X {FallbackPrime})

\* m2 is m1 with a single byte altered
SingleByteAltered(m1, m2) ==
    /\ Len(m1) = Len(m2)
    /\ Cardinality({i \in 1..Len(m1) : m1[i] # m2[i]}) = 1

InitSig == script = "sig" /\ Unassigned

\* Step 1: alice_public, alice_private = generate_keypair(p, q)
GenerateKeypair ==
    /\ script = "sig" /\ pc = "start"
    /\ \E pq \in KeypairInputs :
          /\ p' = pq[1] /\ q' = pq[2]
          /\ keypair' = generate_keypair(pq[1], pq[2])
          /\ pc' = IF generate_keypair(pq[1], pq[2]).raised THEN "raised" ELSE "keys"
    /\ UNCHANGED <<script, rsaVars, dhVars, fnVars, message, signature, received,
                   is_authentic>>

\* Step 2: Alice writes her message
WriteMessage ==
    /\ script = "sig" /\ pc = "keys"
    /\ \E m \in Messages : message' = m
    /\ pc' = "written"
    /\ UNCHANGED <<script, p, q, rsaVars, dhVars, fnVars, keypair, signature,
                   received, is_authentic>>

\* Step 3: signature = sign(message, alice_private)
Sign ==
    /\ script = "sig" /\ pc = "written"
    /\ signature' = sign(message, keypair.private_key)
    /\ pc' = "signed"
    /\ UNCHANGED <<script, p, q, rsaVars, dhVars, fnVars, keypair, message,
                   received, is_authentic>>

\* the message reaches Bob as sent, or with a single byte altered
Deliver ==
    /\ script = "sig" /\ pc = "signed"
    /\ \E m \in Messages :
          /\ m = message \/ SingleByteAltered(message, m)
          /\ received' = m
    /\ pc' = "delivered"
    /\ UNCHANGED <<script, p, q, rsaVars, dhVars, fnVars, keypair, message,
                   signature, is_authentic>>

\* Step 4: is_authentic = verify(message, signature, alice_public)
Verify ==
    /\ script = "sig" /\ pc = "delivered"
    /\ is_authentic' = verify(received, signature, keypair.public_key)
    /\ pc' = "verified"
    /\ UNCHANGED <<script, p, q, rsaVars, dhVars, fnVars, keypair, message,
                   signature, received>>

NextSig == GenerateKeypair \/ WriteMessage \/ Sign \/ Deliver \/ Verify

-----------------------------------------------------------------------------
(* Diffie-Hellman.py *)

\* int(num**0.5) for num >= 0: the integer part of the square root
isqrt(num) == CHOOSE r \in 0..num : r * r <= num /\ num < (r + 1) * (r + 1)

\* is_prime with range(2, int(num**0.5)): the root itself is not tried
is_primeShortRange(num) ==
    IF num <= 1 THEN FALSE
    ELSE \A i \in 2..(isqrt(num) - 1) : num % i # 0

\* is_prime(num): the loop returns False at the first divisor in
\* range(2, int(num**0.5) + 1)
is_prime(num) ==
    IF num <= 1 THEN FALSE
    ELSE \A i \in 2..isqrt(num) : num % i # 0

InitDH == script = "dh" /\ Unassigned

\* g = int(input(...)); p = int(input(...)): int raises ValueError on anything
\* that is not an integer, and the except clause prints 'Invalid input'
ReadInput ==
    /\ script = "dh" /\ pc = "start"
    /\ \/ /\ typed' = "integers"
          /\ \E gg \in (-MaxG)..MaxG, pp \in (-1)..MaxP : g' = gg /\ p' = pp
          /\ pc' = "called"
       \/ /\ typed' = "other"
          /\ UNCHANGED <<g, p>>
          /\ pc' = "invalid_input"
    /\ UNCHANGED <<script, q, rsaVars, sigVars, fnVars, a, b, A, B, key1, key2>>

\* if not is_prime(p): print the error and return
CheckPrime ==
    /\ script = "dh" /\ pc = "called"
    /\ pc' = IF is_prime(p) THEN "accepted" ELSE "not_prime"
    /\ UNCHANGED <<script, p, q, rsaVars, sigVars, fnVars, dhVars>>

\* a = rnd.randint(2, p - 1); b = rnd.randint(2, p - 1): randint raises
\* ValueError on an empty range, which the entry point's except clause catches
DrawSecrets ==
    /\ script = "dh" /\ pc = "accepted"
    /\ IF p - 1 < 2
       THEN /\ pc' = "invalid_input"
            /\ UNCHANGED <<a, b>>
       ELSE /\ \E aa, bb \in 2..(p - 1) : a' = aa /\ b' = bb
            /\ pc' = "secrets"
    /\ UNCHANGED <<script, p, q, rsaVars, sigVars, fnVars, g, A, B, key1, key2,
                   typed>>

\* A = (g ** a) % p; B = (g ** b) % p
PublicKeys ==
    /\ script = "dh" /\ pc = "secrets"
    /\ A' = PowMod(g, a, p)
    /\ B' = PowMod(g, b, p)
    /\ pc' = "publics"
    /\ UNCHANGED <<script, p, q, rsaVars, sigVars, fnVars, g, a, b, key1, key2,
                   typed>>

\* key1 = (B ** a) % p
AliceKey(BB, aa, pp) == PowMod(BB, aa, pp)

\* Bob raising his own public value, not Alice's, to his secret
BobKeyOwnValue(AA, bb, pp) == PowMod(B, bb, pp)

\* key2 = (A ** b) % p
BobKey(AA, bb, pp) == PowMod(AA, bb, pp)

SharedKeys ==
    /\ script = "dh" /\ pc = "publics"
    /\ key1' = AliceKey(B, a, p)
    /\ key2' = BobKey(A, b, p)
    /\ pc' = "keys"
    /\ UNCHANGED <<script, p, q, rsaVars, sigVars, fnVars, g, a, b, A, B, typed>>

\* if key1 == key2: 'Success! The keys match.' else 'Error! The keys do not match.'
Compare ==
    /\ script = "dh" /\ pc = "keys"
    /\ pc' = IF key1 = key2 THEN "match" ELSE "mismatch"
    /\ UNCHANGED <<script, p, q, rsaVars, sigVars, fnVars, dhVars>>

NextDH ==
    ReadInput \/ CheckPrime \/ DrawSecrets \/ PublicKeys \/ SharedKeys \/ Compare

-----------------------------------------------------------------------------
(* A call of prime(num) of RSA.py on an arbitrary integer *)

InitCall == script = "prime" /\ Unassigned

CallPrime ==
    /\ script = "prime" /\ pc = "start"
    /\ \E k \in (-MaxArg)..MaxArg :
          /\ argument' = k
          /\ returned' = prime(k)
    /\ pc' = "returned"
    /\ UNCHANGED <<script, p, q, rsaVars, sigVars, dhVars, args, result>>

-----------------------------------------------------------------------------
(* A call of is_prime(num) of Diffie-Hellman.py on an arbitrary integer *)

InitCallIsPrime == script = "is_prime" /\ Unassigned

CallIsPrime ==
    /\ script = "is_prime" /\ pc = "start"
    /\ \E k \in (-MaxArg)..MaxArg :
          /\ argument' = k
          /\ returned' = is_prime(k)
    /\ pc' = "returned"
    /\ UNCHANGED <<script, p, q, rsaVars, sigVars, dhVars, args, result>>

-----------------------------------------------------------------------------
(* A call of modinv(a, m) of Digital Signature.py on arbitrary arguments *)

InitModinv == script = "modinv" /\ Unassigned

CallModinv ==
    /\ script = "modinv" /\ pc = "start"
    /\ \E a0 \in 0..MaxA, m \in 1..MaxM :
          /\ args' = <<a0, m>>
          /\ result' = modinv(a0, m)
          /\ pc' = IF modinv(a0, m).raised THEN "raised" ELSE "returned"
    /\ UNCHANGED <<script, p, q, rsaVars, sigVars, dhVars, argument, returned>>

-----------------------------------------------------------------------------
(* The private exponent derived both ways from the same e and phi: by Step 5 *)
(* of RSA.py and by modinv(e, phi) of Digital Signature.py                  *)

InitDerive == script = "derive" /\ Unassigned

\* any phi > 1 and any e >= 2 coprime to it
ChoosePhiE ==
    /\ script = "derive" /\ pc = "start"
    /\ \E phi \in 2..MaxPhi, ee \in 2..MaxE :
          /\ gcd(ee, phi) = 1
          /\ phi_n' = phi
          /\ e' = ee
    /\ pc' = "chosen"
    /\ UNCHANGED <<script, sigVars, dhVars, fnVars, p, q, n, d, msg, encrypted,
                   decrypted, decrypted_false>>

\* RSA.py Step 5: d = 1; while (e * d) % phi_n != 1: d += 1
SearchD ==
    /\ script = "derive" /\ pc = "chosen"
    /\ TrialIncrement(e, phi_n) # 0
    /\ d' = TrialIncrement(e, phi_n)
    /\ pc' = "searched"
    /\ UNCHANGED <<script, sigVars, dhVars, fnVars, p, q, n, phi_n, e, msg,
                   encrypted, decrypted, decrypted_false>>

\* Digital Signature.py: d = modinv(e, phi)
InvertE ==
    /\ script = "derive" /\ pc = "searched"
    /\ args' = <<e, phi_n>>
    /\ result' = modinv(e, phi_n)
    /\ pc' = "inverted"
    /\ UNCHANGED <<script, p, q, rsaVars, sigVars, dhVars, argument, returned>>

NextDerive == ChoosePhiE \/ SearchD \/ InvertE

-----------------------------------------------------------------------------
(* The choice of e in generate_keypair, for an arbitrary phi > 1 *)

\* the values of phi: the small ones and multiples of 65537
PhiSample == (2..MaxPhi) \cup {CommonE * k : k \in 1..MaxMultiple}

InitChooseE == script = "choose_e" /\ Unassigned

\* e = 65537; if gcd(e, phi) != 1: e = 3; while gcd(e, phi) != 1: e += 2
CallChooseE ==
    /\ script = "choose_e" /\ pc = "start"
    /\ \E phi \in PhiSample :
          /\ args' = <<phi>>
          /\ result' = [raised |-> FALSE, value |-> keypairE(phi)]
    /\ pc' = "returned"
    /\ UNCHANGED <<script, p, q, rsaVars, sigVars, dhVars, argument, returned>>

-----------------------------------------------------------------------------

Init == InitRSA \/ InitSig \/ InitDH \/ InitCall \/ InitModinv \/ InitDerive
            \/ InitChooseE \/ InitCallIsPrime

Next == NextRSA \/ NextSig \/ NextDH \/ CallPrime \/ CallModinv \/ NextDerive
            \/ CallChooseE \/ CallIsPrime

Spec == Init /\ [][Next]_vars

-----------------------------------------------------------------------------
(* Properties *)

\* a prime number, by definition
IsPrimeNumber(k) == k > 1 /\ \A i \in 2..(k - 1) : k % i # 0

\* the XSpan least and XSpan greatest residues of nn
ResidueSample(nn) ==
    {x \in 0..XSpan : x < nn} \cup {x \in (nn - XSpan)..(nn - 1) : x >= 0}

AfterKeysRSA == {"keys", "message", "encrypted", "decrypted", "done"}
AfterKeysSig == {"keys", "written", "signed", "delivered", "verified"}

\* every symbol of m is below nn
AllBelow(m, nn) == \A i \in 1..Len(m) : m[i] < nn

\* C1: with distinct primes, decrypting with the private key what encrypt made
\* with the public key gives the message back whenever every symbol is below n
\* (the empty message included), and (x^e mod n)^d mod n = x for residues x.
C1_RoundTrip ==
    (script = "rsa" /\ p # q) =>
        /\ (pc \in {"decrypted", "done"} /\ AllBelow(msg, n)) => decrypted = msg
        /\ pc = "keys" =>
              /\ decrypt(encrypt(<<>>, n, e), n, d) = <<>>
              /\ \A x \in ResidueSample(n) : PowMod(PowMod(x, e, n), d, n) = x

C1_Witness ==
    /\ script = "rsa" /\ pc = "decrypted" /\ p # q
    /\ e > phi_n
    /\ msg = <<n - 1, 65>>
    /\ decrypted = msg

\* C2: with distinct primes, verify accepts the signature sign made for the
\* same message, and (h^d mod n)^e mod n = h for digest residues h.
C2_SignThenVerify ==
    (script = "sig" /\ p # q) =>
        /\ (pc = "verified" /\ received = message) => is_authentic
        /\ pc = "keys" =>
              \A h \in ResidueSample(keypair.public_key[2]) :
                  PowMod(PowMod(h, keypair.private_key[1], keypair.private_key[2]),
                         keypair.public_key[1], keypair.public_key[2]) = h

C2_Witness ==
    /\ script = "sig" /\ pc = "verified"
    /\ p = DemoP /\ q = DemoQ
    /\ message = DemoMessage /\ received = message
    /\ signature # msg_hash(message, keypair.public_key[2])
    /\ is_authentic

\* C3: with distinct primes, verify rejects a message that differs in a single
\* byte from the one that was signed.
C3_TamperDetected ==
    (script = "sig" /\ pc = "verified" /\ p # q
        /\ SingleByteAltered(message, received)) => ~is_authentic

\* C4: with distinct primes and phi > 1, generate_keypair returns
\* d = modinv(e, phi) with (e * d) mod phi = 1 and 0 < d < phi.
C4_PrivateExponent ==
    (script = "sig" /\ pc # "start" /\ p # q /\ keypair.phi > 1) =>
        LET ee == keypair.public_key[1]
            dd == keypair.private_key[1]
        IN  /\ ~keypair.raised
            /\ dd = modinv(ee, keypair.phi).value
            /\ MulMod(ee % keypair.phi, dd % keypair.phi, keypair.phi) = 1
            /\ 0 < dd /\ dd < keypair.phi

C4_Witness ==
    /\ script = "sig" /\ pc = "keys" /\ p = DemoP /\ q = DemoQ
    /\ keypair.public_key[1] = CommonE
    /\ keypair.public_key[1] > keypair.phi
    /\ keypair.private_key[1] = 2753

\* C5: in every key pair generated (from distinct primes, to say the least),
\* 1 < e < phi(n) and gcd(e, phi(n)) = 1.
C5_PublicExponentRange ==
    /\ (script = "rsa" /\ pc \in AfterKeysRSA /\ p # q) =>
          (1 < e /\ e < phi_n /\ gcd(e, phi_n) = 1)
    /\ (script = "sig" /\ pc \in AfterKeysSig /\ p # q) =>
          /\ 1 < keypair.public_key[1]
          /\ keypair.public_key[1] < keypair.phi
          /\ gcd(keypair.public_key[1], keypair.phi) = 1

\* C6: no key pair is produced from p = q: RSA.py never computes n from equal
\* draws and generate_keypair(p, p) returns no keys.
C6_EqualPrimesRejected ==
    /\ (script = "rsa" /\ pc \notin {"start", "primes"}) => p # q
    /\ (script = "sig" /\ pc \in AfterKeysSig) => p # q

\* the worked example but for the totient
WorkedExample ==
    /\ modinv(17, 780) = [raised |-> FALSE, value |-> 413]
    /\ TrialIncrement(17, 780) = 413
    /\ encrypt(<<65>>, 3233, 17) = <<50, 55, 57, 48>>
    /\ decrypt(<<50, 55, 57, 48>>, 3233, 413) = <<65>>

DemoKeys == script = "sig" /\ pc = "keys" /\ p = DemoP /\ q = DemoQ

C8_PrimeExact ==
    (script = "prime" /\ pc = "returned") =>
        (returned <=> IsPrimeNumber(argument))

\* C9: for a modulus dhkep accepts and secrets in [2, p-1], Alice's key equals
\* Bob's key, both are g^(a*b) mod p, and the comparison finds them equal.
C9_KeysAgree ==
    script = "dh" =>
        /\ pc # "mismatch"
        /\ pc \in {"keys", "match"} =>
              /\ key1 = key2
              /\ key1 = PowMod(g, a * b, p)

C9_Witness ==
    /\ script = "dh" /\ pc = "match"
    /\ g >= 2 /\ a # b /\ A # B
    /\ key1 > 1 /\ key1 = key2

\* C10: encrypt returns no ciphertext for a message with a symbol >= n (under
\* a key from distinct primes, to say the least).
C10_OverflowReported ==
    (script = "rsa" /\ pc \in {"encrypted", "decrypted", "done"} /\ p # q) =>
        AllBelow(msg, n)

\* C11: for a >= 0 and m >= 1, modinv(a, m) raises when gcd(a, m) != 1 and
\* every value x it returns satisfies (a * x) mod m = 1 mod m.
C11_NeverWrongValue ==
    (script = "modinv" /\ pc \in {"returned", "raised"}) =>
        /\ gcd(args[1], args[2]) # 1 => result.raised
        /\ ~result.raised => (args[1] * result.value) % args[2] = 1 % args[2]

\* C12: for phi > 1 and e >= 2 coprime to phi (e > phi included), the
\* trial-increment search stops, with (e * d) mod phi = 1, and modinv(e, phi)
\* returns the same d; so does it for every key RSA.py generates.
C12_DerivationsAgree ==
    /\ script = "derive" =>
          /\ pc = "chosen" => TrialIncrement(e, phi_n) # 0
          /\ pc \in {"searched", "inverted"} => (e * d) % phi_n = 1
          /\ pc = "inverted" => (~result.raised /\ result.value = d)
    /\ (script = "rsa" /\ pc \in AfterKeysRSA) =>
          modinv(e, phi_n) = [raised |-> FALSE, value |-> d]

C12_Witness ==
    /\ script = "derive" /\ pc = "inverted"
    /\ e > phi_n /\ d > 1
    /\ modinvLoop(e, phi_n, 0, 1).value < 0
    /\ result.value = d

\* C13: when the two draws coincide, every key pair RSA.py produces breaks the
\* round trip on the symbol x = p < n: ((p^e mod n)^d mod n) != p, and a
\* message containing chr(p) is not decrypted to itself.
C13_EqualPrimesBreak ==
    (script = "rsa" /\ p = q) =>
        /\ pc \in AfterKeysRSA =>
              /\ n = p * p /\ phi_n = (p - 1) * (p - 1) /\ p < n
              /\ PowMod(PowMod(p, e, n), d, n) # p
        /\ (pc \in {"decrypted", "done"} /\ \E i \in 1..Len(msg) : msg[i] = p) =>
              decrypted # msg

C13_Witness ==
    /\ script = "rsa" /\ pc = "decrypted" /\ p = q
    /\ msg = <<65, p>> /\ AllBelow(msg, n)
    /\ decrypted[1] # 65 /\ decrypted[2] = 0

\* ee is what the selection of generate_keypair must give for phi
SelectedFor(ee, phi) ==
    IF gcd(CommonE, phi) = 1
    THEN ee = CommonE
    ELSE /\ ee % 2 = 1 /\ 3 <= ee /\ ee < phi
         /\ gcd(ee, phi) = 1
         /\ \A c \in 3..(ee - 1) : c % 2 = 1 => gcd(c, phi) # 1

\* C14: for every phi > 1 the selection of e in generate_keypair ends: with
\* gcd(65537, phi) = 1 it is 65537, and otherwise it is the first odd e >= 3
\* coprime to phi, which is below phi.
C14_SelectionTerminates ==
    /\ (script = "choose_e" /\ pc = "returned") =>
          SelectedFor(result.value, args[1])
    /\ (script = "sig" /\ pc # "start" /\ keypair.phi > 1) =>
          SelectedFor(keypair.public_key[1], keypair.phi)

C14_Witness ==
    /\ script = "choose_e" /\ pc = "returned"
    /\ gcd(CommonE, args[1]) # 1
    /\ result.value > 5 /\ result.value < args[1]

\* the integers of [2, floor(sqrt(k))] that divide k
RootDivisors(k) == {i \in 2..k : i * i <= k /\ k % i = 0}

\* C15: is_prime(num) returns True exactly when num is a prime number, for
\* every integer num: False for num <= 1, True for 2, for num > 2 False iff
\* an integer of [2, floor(sqrt(num))] divides num; for num >= 1 it returns
\* what prime(num) of RSA.py returns; dhkep accepts p exactly when p is prime.
C15_IsPrimeExact ==
    /\ (script = "is_prime" /\ pc = "returned") =>
          /\ returned <=> IsPrimeNumber(argument)
          /\ argument <= 1 => ~returned
          /\ argument = 2 => returned
          /\ argument > 2 => (~returned <=> RootDivisors(argument) # {})
          /\ argument >= 1 => (returned <=> prime(argument))
    /\ script = "dh" =>
          /\ pc = "accepted" => IsPrimeNumber(p)
          /\ pc = "not_prime" => ~IsPrimeNumber(p)

C15_Witness ==
    /\ script = "is_prime" /\ pc = "returned"
    /\ argument = 49 /\ ~returned
    /\ RootDivisors(argument) = {7}

\* C16: in every key pair RSA.py generates (from distinct primes, to say the
\* least; any e of [2, n) coprime to phi) the private exponent is neither 1
\* nor e.
C16_NonTrivialSecret ==
    (script = "rsa" /\ pc \in AfterKeysRSA /\ p # q) => (d # 1 /\ d # e)

\* C17: for every p that dhkep accepts the range [2, p-1] of the secrets is
\* not empty and the exchange goes on to the comparison; 'Invalid input' is
\* reported only when what was typed is not a pair of integers, and 'not a
\* prime number' only when p is not prime.
C17_ExchangeCompletes ==
    script = "dh" =>
        /\ pc = "accepted" => (2..(p - 1)) # {}
        /\ pc = "invalid_input" => typed = "other"
        /\ pc = "not_prime" => ~IsPrimeNumber(p)

=============================================================================
